---- MODULE Spec2Model ----
(***************************************************************************)
(* django-hitcount, hitcount/models.py: the HitCount aggregate, the Hit    *)
(* event log, the two blacklists and the pre_delete signal handler.        *)
(*                                                                         *)
(* The store is the relational database behind the ORM.  Every ORM write   *)
(* (Model.save, the DELETE of Model.delete) is one statement that the      *)
(* store applies atomically and, models.py opening no transaction of its   *)
(* own, commits by itself (Django's commit-on-save default), so the        *)
(* statements of one request are separate steps that other requests and    *)
(* the clock interleave with.  Time is counted in days.                    *)
(***************************************************************************)
EXTENDS Integers, Sequences, FiniteSets, TLC

\* ------------------------------------------------------------------ bounds
NumProcs == 2          \* concurrent requests
NumAggs  == 2          \* HitCount rows that exist
MaxHits  == 2          \* Hit primary keys handed out by the store
MaxTime  == 10         \* last day the clock reaches where time matters
ShortTime == 1         \* last day the clock reaches where it does not
MaxFailures == 1       \* storage failures in one run
MaxDeletes  == 2       \* delete() calls the run makes for one Hit primary key

Procs   == 1..NumProcs
Aggs    == 1..NumAggs
HitIds  == 1..MaxHits
Objects == 1..NumAggs  \* object_id of the content objects that get tracked

\* ------------------------------------------------------------ value spaces
NoPk   == 0            \* Model.pk of an instance that was never stored
NoTime == -1           \* Hit.created of an instance that was never saved (None)
NoRow  == [absent |-> TRUE]
NoAgg  == 0            \* Hit.hitcount_id of an instance given no aggregate (None)
Blank  == ""           \* what a CharField holds when the constructor is given none

\* a visitor as the request layer hands it over: ip, session, user agent
Visitors   == { [ip |-> "1.2.3.4", session |-> "s1", user_agent |-> "bot"],
                [ip |-> "5.6.7.8", session |-> "s2", user_agent |-> "browser"] }

\* the same visitor as callers hand it over that leave out one of the three
\* identifiers: Hit(...) fills the CharField with its default, the empty string
Incomplete == { [ip |-> Blank, session |-> "s2", user_agent |-> "browser"],
                [ip |-> "5.6.7.8", session |-> Blank, user_agent |-> "browser"],
                [ip |-> "5.6.7.8", session |-> "s2", user_agent |-> Blank] }

\* The value of the in-memory attribute HitCount.hits: a plain integer, or
\* the expression F('hits') + val that the store evaluates against the row.
Lit(n)  == [isF |-> FALSE, val |-> n]
FExpr(d) == [isF |-> TRUE, val |-> d]

VARIABLES
    hitcount,      \* table hitcount_hit_count: pk -> row
    hit,           \* table of Hit rows: pk -> row, or NoRow
    nextPk,        \* the store's next Hit primary key
    now,           \* datetime.datetime.utcnow(), in days
    blacklistIP,   \* table hitcount_blacklist_ip
    blacklistUA,   \* table hitcount_blacklist_user_agent
    pc,            \* where each request stands
    obj,           \* each request's in-memory Hit instance
    hc,            \* each request's in-memory HitCount instance (obj.hitcount)
    outcome,       \* how each request's last operation ended
    answer,        \* the hits_in_last call just made and what it returned
    trace          \* history of the run (ghost): counters per Hit and aggregate

vars == <<hitcount, hit, nextPk, now, blacklistIP, blacklistUA, pc, obj, hc,
          outcome, answer, trace>>
store == <<hitcount, hit, nextPk>>
blacklists == <<blacklistIP, blacklistUA>>


\* ------------------------------------------------------------------ Init
NoObj == [none |-> TRUE]
NoCall == [status |-> "none"]

\* One HitCount row per tracked object, no Hit yet, empty blacklists.
Init ==
    /\ hitcount = [a \in Aggs |-> [hits |-> 0, modified |-> 0,
                                   content_type |-> "article", object_id |-> a]]
    /\ hit = [h \in HitIds |-> NoRow]
    /\ nextPk = 1
    /\ now = 0
    /\ blacklistIP = {}
    /\ blacklistUA = {}
    /\ pc = [p \in Procs |-> "idle"]
    /\ obj = [p \in Procs |-> NoObj]
    /\ hc = [p \in Procs |-> NoObj]
    /\ outcome = [p \in Procs |-> "ok"]
    /\ answer = NoCall
    /\ trace = [ins |-> [h \in HitIds |-> 0], decs |-> [h \in HitIds |-> 0],
                failures |-> 0, returned |-> [o \in Objects |-> {}]]

\* The same with an empty HitCount table: no object is tracked yet.
InitUntracked ==
    /\ hitcount = [a \in Aggs |-> NoRow]
    /\ hit = [h \in HitIds |-> NoRow]
    /\ nextPk = 1
    /\ now = 0
    /\ blacklistIP = {}
    /\ blacklistUA = {}
    /\ pc = [p \in Procs |-> "idle"]
    /\ obj = [p \in Procs |-> NoObj]
    /\ hc = [p \in Procs |-> NoObj]
    /\ outcome = [p \in Procs |-> "ok"]
    /\ answer = NoCall
    /\ trace = [ins |-> [h \in HitIds |-> 0], decs |-> [h \in HitIds |-> 0],
                failures |-> 0, returned |-> [o \in Objects |-> {}]]

\* ------------------------------------------------------- the ORM, in memory
\* HitCount.objects.get(pk=a): an in-memory copy of the row as it is now.
LoadHitCount(a) ==
    [pk |-> a, hits |-> Lit(hitcount[a].hits), modified |-> hitcount[a].modified,
     content_type |-> hitcount[a].content_type, object_id |-> hitcount[a].object_id]

\* Hit.objects.get(pk=h): an in-memory copy of a stored Hit.
LoadHit(h) ==
    [pk |-> h, created |-> hit[h].created, ip |-> hit[h].ip,
     session |-> hit[h].session, user_agent |-> hit[h].user_agent,
     hitcount |-> hit[h].hitcount]

\* Hit(ip=.., session=.., user_agent=.., hitcount=..): a fresh instance.
NewInstance(a, v) ==
    [pk |-> NoPk, created |-> NoTime, ip |-> v.ip, session |-> v.session,
     user_agent |-> v.user_agent, hitcount |-> a]

\* What the store computes for the hits column of an UPDATE: the literal, or
\* the F expression evaluated against the row at the time of the statement.
Resolve(expr, row) == IF expr.isF THEN row.hits + expr.val ELSE expr.val

\* (mutant) the UPDATE without its WHERE clause: every row is written
UpdateHitCountAll(rows, h) ==
    [a \in DOMAIN rows |-> [hits |-> Resolve(h.hits, rows[a]),
                            modified |-> h.modified,
                            content_type |-> h.content_type,
                            object_id |-> h.object_id]]

\* super(HitCount, self).save(): UPDATE of every column of the row h.pk.
UpdateHitCount(rows, h) ==
    [rows EXCEPT ![h.pk] = [hits |-> Resolve(h.hits, rows[h.pk]),
                            modified |-> h.modified,
                            content_type |-> h.content_type,
                            object_id |-> h.object_id]]

\* (mutant) save() without the stamp of line 34
HitCountSaveNoStamp(h, t) == h

\* HitCount.save, the in-memory half: self.modified = utcnow().
HitCountSave(h, t) == [h EXCEPT !.modified = t]

\* (mutant) the increment computed in Python from the value read earlier
HitSaveAssignReadModifyWrite(h) == [h EXCEPT !.hits = Lit(h.hits.val + 1)]

\* Hit.save, line 122: self.hitcount.hits = F('hits') + 1
HitSaveAssign(h) == [h EXCEPT !.hits = FExpr(1)]

\* (mutant) the handler adding instead of subtracting
SubtractAssignPlus(h) == [h EXCEPT !.hits = FExpr(1)]

\* subtract_hit_count, line 161: instance.hitcount.hits = F('hits') - 1
SubtractAssign(h) == [h EXCEPT !.hits = FExpr(-1)]

\* (mutant) the guard of line 121 dropped: every save bumps the aggregate
FirstSaveAlways(o) == TRUE

\* Hit.save, line 121: `if not self.created`
FirstSave(o) == o.created = NoTime

\* The row super(Hit, self).save() writes for the instance o.
HitRow(o) ==
    [created |-> o.created, ip |-> o.ip, session |-> o.session,
     user_agent |-> o.user_agent, hitcount |-> o.hitcount]

\* ------------------------------------------------------------ bookkeeping
AllIdle == \A p \in Procs : pc[p] = "idle"
Others(p) == Procs \ {p}
Serial(p) == \A q \in Others(p) : pc[q] = "idle"

\* Requests that hold a new Hit which has no row yet.
Unstored == {p \in Procs : pc[p] \in {"blacklist_check", "dedup_check",
                                      "hit_save", "set_created", "hit_insert"}
                           /\ obj[p].pk = NoPk}
\* Requests that are deleting Hit h and have not yet run the signal handler.
Deleting(h) == {p \in Procs : pc[p] = "pre_delete" /\ obj[p].pk = h}

Finish(p, how) ==
    /\ pc' = [pc EXCEPT ![p] = "idle"]
    /\ obj' = [obj EXCEPT ![p] = NoObj]
    /\ hc' = [hc EXCEPT ![p] = NoObj]
    /\ outcome' = [outcome EXCEPT ![p] = how]

\* -------------------------------------------------------------- the clock
Tick(last) ==
    /\ now < last
    /\ now' = now + 1
    /\ answer' = NoCall
    /\ UNCHANGED <<store, blacklists, pc, obj, hc, outcome, trace>>

\* The clock is next read at a later one of the moments S.
Elapse(S) ==
    /\ \E t \in S : t > now /\ now' = t
    /\ answer' = NoCall
    /\ UNCHANGED <<store, blacklists, pc, obj, hc, outcome, trace>>

\* ------------------------------------------------ creating a HitCount row
\* HitCount rows that exist, and those of one content object.
Tracked == {a \in Aggs : hitcount[a] # NoRow}
AggregatesOf(ct, o) ==
    {a \in Tracked : hitcount[a].content_type = ct /\ hitcount[a].object_id = o}

\* (mutant) the table without its unique constraint
UniqueTogetherOff(h) == TRUE

\* Meta.unique_together, line 24: the store accepts the row of h only when no
\* row has its (content_type, object_id).
UniqueTogether(h) == AggregatesOf(h.content_type, h.object_id) = {}

\* HitCount(content_type=.., object_id=o): a fresh instance, hits and modified
\* at their defaults (lines 16-17).
NewHitCount(o) ==
    [pk |-> NoPk, hits |-> Lit(0), modified |-> now,
     content_type |-> "article", object_id |-> o]

\* super(HitCount, self).save() of an instance without a primary key: INSERT
\* under the key pk.
InsertHitCount(rows, pk, h) ==
    [rows EXCEPT ![pk] = [hits |-> h.hits.val, modified |-> h.modified,
                          content_type |-> h.content_type,
                          object_id |-> h.object_id]]

\* getOrCreate(contentRef): a caller asks for the aggregate of object o.
GetOrCreate(p, o) ==
    /\ pc[p] = "idle"
    /\ pc' = [pc EXCEPT ![p] = "goc_get"]
    /\ hc' = [hc EXCEPT ![p] = NewHitCount(o)]
    /\ answer' = NoCall
    /\ UNCHANGED <<store, now, blacklists, obj, outcome, trace>>

\* The lookup by (content_type, object_id), first or after a refused INSERT:
\* a row found is returned, none found leads to the INSERT.
GocGet(p) ==
    /\ pc[p] \in {"goc_get", "goc_retry"}
    /\ LET found == AggregatesOf(hc[p].content_type, hc[p].object_id)
       IN IF found # {}
            THEN /\ \E a \in found :
                      trace' = [trace EXCEPT !.returned[hc[p].object_id] = @ \cup {a}]
                 /\ Finish(p, "ok")
            ELSE /\ pc' = [pc EXCEPT ![p] = "goc_insert"]
                 /\ UNCHANGED <<obj, hc, outcome, trace>>
    /\ answer' = NoCall
    /\ UNCHANGED <<store, now, blacklists>>

\* The creation: HitCount.save() stamps modified and INSERTs under the next
\* free key, and the new row is returned; a row the unique constraint
\* refuses (IntegrityError) sends the caller back to the lookup.
GocInsert(p) ==
    /\ pc[p] = "goc_insert"
    /\ IF UniqueTogether(hc[p])
         THEN /\ Aggs \ Tracked # {}
              /\ LET pk == CHOOSE a \in Aggs \ Tracked :
                                \A b \in Aggs \ Tracked : a <= b
                     h == HitCountSave(hc[p], now)
                 IN /\ hitcount' = InsertHitCount(hitcount, pk, h)
                    /\ trace' = [trace EXCEPT !.returned[h.object_id] = @ \cup {pk}]
              /\ Finish(p, "ok")
         ELSE /\ pc' = [pc EXCEPT ![p] = "goc_retry"]
              /\ UNCHANGED <<hitcount, obj, hc, outcome, trace>>
    /\ answer' = NoCall
    /\ UNCHANGED <<hit, nextPk, now, blacklists>>

\* utcnow() reads the wall clock, which an adjustment of the host's time can
\* set back: the clock is next read at an earlier one of the moments S.
SetBack(S) ==
    /\ \E t \in S : t < now /\ now' = t
    /\ answer' = NoCall
    /\ UNCHANGED <<store, blacklists, pc, obj, hc, outcome, trace>>

\* ---------------------------------------------------- creating a Hit event
\* A caller builds a new Hit for aggregate a, holding a copy of the aggregate
\* that it loaded now, and calls Hit.save().
NewHit(p, a, v) ==
    /\ pc[p] = "idle"
    /\ nextPk + Cardinality(Unstored) <= MaxHits
    /\ pc' = [pc EXCEPT ![p] = "hit_save"]
    /\ obj' = [obj EXCEPT ![p] = NewInstance(a, v)]
    /\ hc' = [hc EXCEPT ![p] = LoadHitCount(a)]
    /\ answer' = NoCall
    /\ UNCHANGED <<store, now, blacklists, outcome, trace>>

\* A caller builds a new Hit without giving it an aggregate and calls save().
NewHitNoAggregate(p, v) ==
    /\ pc[p] = "idle"
    /\ nextPk + Cardinality(Unstored) <= MaxHits
    /\ pc' = [pc EXCEPT ![p] = "hit_save"]
    /\ obj' = [obj EXCEPT ![p] = NewInstance(NoAgg, v)]
    /\ answer' = NoCall
    /\ UNCHANGED <<store, now, blacklists, hc, outcome, trace>>

\* A caller loads the stored Hit h and calls save() on it again.
SaveAgain(p, h) ==
    /\ pc[p] = "idle"
    /\ hit[h] # NoRow
    /\ pc' = [pc EXCEPT ![p] = "hit_save"]
    /\ obj' = [obj EXCEPT ![p] = LoadHit(h)]
    /\ answer' = NoCall
    /\ UNCHANGED <<store, now, blacklists, hc, outcome, trace>>

\* self.hitcount: the related HitCount instance the Hit holds, fetched from
\* its row on first access when the Hit was loaded without it
RelatedHitCount(p) ==
    IF hc[p] = NoObj THEN LoadHitCount(obj[p].hitcount) ELSE hc[p]

\* Hit.save, lines 121-123: on the first save the aggregate is bumped by
\* hitcount.save(), which stamps `modified` and issues the UPDATE.
HitSave(p) ==
    /\ pc[p] = "hit_save"
    /\ obj[p].hitcount # NoAgg
    /\ IF FirstSave(obj[p])
         THEN LET h == HitCountSave(HitSaveAssign(RelatedHitCount(p)), now)
              IN /\ hc' = [hc EXCEPT ![p] = h]
                 /\ hitcount' = UpdateHitCount(hitcount, h)
                 /\ pc' = [pc EXCEPT ![p] = "set_created"]
         ELSE /\ pc' = [pc EXCEPT ![p] = "hit_insert"]
              /\ UNCHANGED <<hc, hitcount>>
    /\ answer' = NoCall
    /\ UNCHANGED <<hit, nextPk, now, blacklists, obj, outcome, trace>>

\* Hit.save, line 122, on a Hit without an aggregate: reading self.hitcount
\* raises HitCount.DoesNotExist, which leaves save() before any write.
HitSaveNoHitCount(p) ==
    /\ pc[p] = "hit_save"
    /\ obj[p].hitcount = NoAgg
    /\ FirstSave(obj[p])
    /\ Finish(p, "DoesNotExist")
    /\ answer' = NoCall
    /\ UNCHANGED <<store, now, blacklists, trace>>

\* Hit.save, line 124: self.created = utcnow()
SetCreated(p) ==
    /\ pc[p] = "set_created"
    /\ obj' = [obj EXCEPT ![p].created = now]
    /\ pc' = [pc EXCEPT ![p] = "hit_insert"]
    /\ answer' = NoCall
    /\ UNCHANGED <<store, now, blacklists, hc, outcome, trace>>

\* Hit.save, line 126: super(Hit, self).save().  An instance without a
\* primary key is INSERTed under the next key; one with a key is UPDATEd
\* when its row exists and INSERTed under its key when it does not.
HitInsert(p) ==
    /\ pc[p] = "hit_insert"
    /\ LET pk == IF obj[p].pk = NoPk THEN nextPk ELSE obj[p].pk
       IN /\ hit' = [hit EXCEPT ![pk] = HitRow(obj[p])]
          /\ nextPk' = IF obj[p].pk = NoPk THEN nextPk + 1 ELSE nextPk
          /\ trace' = IF hit[pk] = NoRow
                        THEN [trace EXCEPT !.ins[pk] = @ + 1]
                        ELSE trace
    /\ Finish(p, "ok")
    /\ answer' = NoCall
    /\ UNCHANGED <<hitcount, now, blacklists>>

\* ---------------------------------------------------- deleting a Hit event
\* A caller loads the stored Hit h and calls delete() on it.
DeleteHit(p, h) ==
    /\ pc[p] = "idle"
    /\ hit[h] # NoRow
    /\ trace.decs[h] + Cardinality(Deleting(h)) < MaxDeletes
    /\ pc' = [pc EXCEPT ![p] = "pre_delete"]
    /\ obj' = [obj EXCEPT ![p] = LoadHit(h)]
    /\ answer' = NoCall
    /\ UNCHANGED <<store, now, blacklists, hc, outcome, trace>>

\* subtract_hit_count, the pre_delete handler: instance.hitcount is fetched
\* from the store, its hits set to F('hits') - 1, and saved.
SubtractHitCount(p) ==
    /\ pc[p] = "pre_delete"
    /\ LET h == HitCountSave(SubtractAssign(LoadHitCount(obj[p].hitcount)), now)
       IN /\ hc' = [hc EXCEPT ![p] = h]
          /\ hitcount' = UpdateHitCount(hitcount, h)
    /\ trace' = [trace EXCEPT !.decs[obj[p].pk] = @ + 1]
    /\ pc' = [pc EXCEPT ![p] = "delete_row"]
    /\ answer' = NoCall
    /\ UNCHANGED <<hit, nextPk, now, blacklists, obj, outcome>>

\* The same handler over a store that enforces the sign of the
\* PositiveIntegerField (a CHECK hits >= 0, an unsigned column): the UPDATE
\* that would take hits below zero raises IntegrityError, which leaves the
\* handler and delete() with nothing written.  Whether the store refuses the
\* UPDATE or applies it, as SubtractHitCount does, depends on the backend.
SubtractHitCountRefused(p) ==
    /\ pc[p] = "pre_delete"
    /\ Resolve(FExpr(-1), hitcount[obj[p].hitcount]) < 0
    /\ Finish(p, "IntegrityError")
    /\ answer' = NoCall
    /\ UNCHANGED <<store, now, blacklists, trace>>

\* Model.delete after the signal: DELETE ... WHERE id = pk, which removes
\* the row when it is still there and nothing otherwise.
DeleteRow(p) ==
    /\ pc[p] = "delete_row"
    /\ hit' = [hit EXCEPT ![obj[p].pk] = NoRow]
    /\ Finish(p, "ok")
    /\ answer' = NoCall
    /\ UNCHANGED <<hitcount, nextPk, now, blacklists, trace>>

\* ------------------------------------------ saving a HitCount on its own
\* A caller loads the HitCount a, to call save() on it later without having
\* assigned to hits.
LoadAggregate(p, a) ==
    /\ pc[p] = "idle"
    /\ pc' = [pc EXCEPT ![p] = "hitcount_save"]
    /\ hc' = [hc EXCEPT ![p] = LoadHitCount(a)]
    /\ answer' = NoCall
    /\ UNCHANGED <<store, now, blacklists, obj, outcome, trace>>

\* Hit.save, line 126, as HitInsert, for a caller that keeps the HitCount
\* instance the Hit holds and goes on to call save() on it.
HitInsertAndKeep(p) ==
    /\ pc[p] = "hit_insert"
    /\ hc[p] # NoObj
    /\ LET pk == IF obj[p].pk = NoPk THEN nextPk ELSE obj[p].pk
       IN /\ hit' = [hit EXCEPT ![pk] = HitRow(obj[p])]
          /\ nextPk' = IF obj[p].pk = NoPk THEN nextPk + 1 ELSE nextPk
          /\ trace' = IF hit[pk] = NoRow
                        THEN [trace EXCEPT !.ins[pk] = @ + 1]
                        ELSE trace
    /\ pc' = [pc EXCEPT ![p] = "hitcount_save"]
    /\ obj' = [obj EXCEPT ![p] = NoObj]
    /\ answer' = NoCall
    /\ UNCHANGED <<hitcount, now, blacklists, hc, outcome>>

\* Model.delete after the signal, as DeleteRow, for a caller that keeps the
\* HitCount instance the handler used and goes on to call save() on it.
DeleteRowAndKeep(p) ==
    /\ pc[p] = "delete_row"
    /\ hit' = [hit EXCEPT ![obj[p].pk] = NoRow]
    /\ pc' = [pc EXCEPT ![p] = "hitcount_save"]
    /\ obj' = [obj EXCEPT ![p] = NoObj]
    /\ answer' = NoCall
    /\ UNCHANGED <<hitcount, nextPk, now, blacklists, hc, outcome, trace>>

\* HitCount.save(), lines 33-35, on the instance the caller holds: modified
\* is stamped and every column is written from the instance, hits as the
\* instance has it, a number read earlier or an F expression assigned earlier.
SaveHitCount(p) ==
    /\ pc[p] = "hitcount_save"
    /\ LET h == HitCountSave(hc[p], now)
       IN hitcount' = UpdateHitCount(hitcount, h)
    /\ Finish(p, "ok")
    /\ answer' = NoCall
    /\ UNCHANGED <<hit, nextPk, now, blacklists, trace>>

\* ------------------------------------------------------- storage failures
\* The statement a request is about to issue fails; the exception leaves
\* save() or delete() and ends the request.  Statements already issued stay.
Writing(p) ==
    \/ pc[p] = "hit_save" /\ FirstSave(obj[p])
    \/ pc[p] \in {"hit_insert", "pre_delete", "delete_row"}

StorageFailure(p) ==
    /\ Writing(p)
    /\ trace.failures < MaxFailures
    /\ trace' = [trace EXCEPT !.failures = @ + 1]
    /\ Finish(p, "error")
    /\ answer' = NoCall
    /\ UNCHANGED <<store, now, blacklists>>

\* ------------------------------------------------------------ blacklists
\* The admin adds or removes a BlacklistIP row (ip is unique).
AddBlacklistIP(ip) ==
    /\ ip \notin blacklistIP
    /\ blacklistIP' = blacklistIP \cup {ip}
    /\ answer' = NoCall
    /\ UNCHANGED <<store, now, blacklistUA, pc, obj, hc, outcome, trace>>

RemoveBlacklistIP(ip) ==
    /\ ip \in blacklistIP
    /\ blacklistIP' = blacklistIP \ {ip}
    /\ answer' = NoCall
    /\ UNCHANGED <<store, now, blacklistUA, pc, obj, hc, outcome, trace>>

\* The admin adds or removes a BlacklistUserAgent row (user_agent is unique).
AddBlacklistUA(ua) ==
    /\ ua \notin blacklistUA
    /\ blacklistUA' = blacklistUA \cup {ua}
    /\ answer' = NoCall
    /\ UNCHANGED <<store, now, blacklistIP, pc, obj, hc, outcome, trace>>

RemoveBlacklistUA(ua) ==
    /\ ua \in blacklistUA
    /\ blacklistUA' = blacklistUA \ {ua}
    /\ answer' = NoCall
    /\ UNCHANGED <<store, now, blacklistIP, pc, obj, hc, outcome, trace>>

\* ------------------------------------------------------ durations, windows
\* datetime.timedelta(**kwargs), in days.  kwargs is a function from the
\* argument names given to their values; of timedelta's arguments the model
\* has those that are whole days.
TimedeltaArgs == {"days", "weeks"}
DaysPerWeek == 7
Arg(kwargs, name) == IF name \in DOMAIN kwargs THEN kwargs[name] ELSE 0
TimeDelta(kwargs) == Arg(kwargs, "days") + DaysPerWeek * Arg(kwargs, "weeks")

\* settings.HITCOUNT_KEEP_HIT_ACTIVE, or its default {'days': 7}
KeepHitActiveDays == 7
KeepHitActive == [k \in {"days"} |-> KeepHitActiveDays]

\* (mutant) created__gt in place of created__gte
CreatedGt(S, period) == {h \in S : hit[h].created > period}

\* queryset.filter(created__gte=period) over a set of Hit primary keys
CreatedGte(S, period) == {h \in S : hit[h].created >= period}

\* Hit.objects.get_query_set(): every stored Hit
AllHits == {h \in HitIds : hit[h] # NoRow}

\* The project's settings: a function from the names set to their values.
NoSettings == [k \in {} |-> 0]
Settings == {NoSettings,
             [k \in {"HITCOUNT_KEEP_HIT_ACTIVE"} |-> [d \in {"days"} |-> 1]]}

\* (mutant) the setting ignored
GraceDefaultOnly(settings) == KeepHitActive

\* line 78: getattr(settings, 'HITCOUNT_KEEP_HIT_ACTIVE', {'days':7})
Grace(settings) ==
    IF "HITCOUNT_KEEP_HIT_ACTIVE" \in DOMAIN settings
      THEN settings["HITCOUNT_KEEP_HIT_ACTIVE"]
      ELSE KeepHitActive

\* queryset.filter(**criteria), line 83: the Hits whose fields equal the
\* values of the caller's keyword arguments
Matching(criteria) ==
    {h \in AllHits : \A k \in DOMAIN criteria : hit[h][k] = criteria[k]}

\* HitManager.filter_active under the given settings, where matching is the
\* set of Hits the caller's filter arguments select
FilterActiveIn(settings, matching) ==
    LET period == now - TimeDelta(Grace(settings))
    IN CreatedGte(AllHits, period) \cap matching

\* HitManager.filter_active of a project that does not set the grace period
FilterActive(matching) == FilterActiveIn(NoSettings, matching)

\* The filter arguments callers pass: none, a session, an aggregate, or both.
CriteriaSet ==
    {[k \in {} |-> 0]}
    \cup {[k \in {"session"} |-> v.session] : v \in Visitors}
    \cup {[k \in {"hitcount"} |-> a] : a \in Aggs}
    \cup {[session |-> v.session, hitcount |-> a] : v \in Visitors, a \in Aggs}

\* A caller asks for the active Hits that meet its criteria.
CallFilterActive(settings, criteria) ==
    /\ answer = NoCall
    /\ answer' = [status |-> "active", settings |-> settings,
                  criteria |-> criteria,
                  value |-> FilterActiveIn(settings, Matching(criteria))]
    /\ UNCHANGED <<store, now, blacklists, pc, obj, hc, outcome, trace>>

\* (mutant) the Hit manager in place of the aggregate's own hit_set
HitSetAll(a) == AllHits

\* self.hit_set of the HitCount a: the stored Hits whose hitcount is a
HitSet(a) == {h \in AllHits : hit[h].hitcount = a}

\* (mutant) hits_in_last without the assert of line 51
HitsInLastNoAssert(a, kwargs) ==
    IF ~(DOMAIN kwargs \subseteq TimedeltaArgs)
      THEN [status |-> "TypeError", agg |-> a, kwargs |-> kwargs]
    ELSE LET period == now - TimeDelta(kwargs)
         IN [status |-> "ok", agg |-> a, kwargs |-> kwargs,
             value |-> Cardinality(CreatedGte(HitSet(a), period))]

\* HitCount.hits_in_last(**kwargs) on aggregate a
HitsInLast(a, kwargs) ==
    IF DOMAIN kwargs = {}
      THEN [status |-> "AssertionError", agg |-> a, kwargs |-> kwargs]
    ELSE IF ~(DOMAIN kwargs \subseteq TimedeltaArgs)
      THEN [status |-> "TypeError", agg |-> a, kwargs |-> kwargs]
    ELSE LET period == now - TimeDelta(kwargs)
         IN [status |-> "ok", agg |-> a, kwargs |-> kwargs,
             value |-> Cardinality(CreatedGte(HitSet(a), period))]

\* The keyword arguments callers pass: days, weeks, and `years`, which
\* timedelta does not accept.
ArgNames == {"days", "weeks", "years"}
ArgValues(name) == IF name = "days" THEN {-7, 0, 1, 7} ELSE {1}
KwargsSet ==
    UNION {{kw \in [K -> {-7, 0, 1, 7}] : \A k \in K : kw[k] \in ArgValues(k)} :
           K \in SUBSET ArgNames}

\* A caller asks aggregate a for its hits in the last `kwargs`.
CallHitsInLast(a, kwargs) ==
    /\ answer = NoCall
    /\ answer' = HitsInLast(a, kwargs)
    /\ UNCHANGED <<store, now, blacklists, pc, obj, hc, outcome, trace>>

\* ------------------------------------------------- the view, per request
\* RECEIVED: a view of the object of aggregate a by visitor v arrives.
View(p, a, v) ==
    /\ pc[p] = "idle"
    /\ nextPk + Cardinality(Unstored) <= MaxHits
    /\ pc' = [pc EXCEPT ![p] = "blacklist_check"]
    /\ obj' = [obj EXCEPT ![p] = NewInstance(a, v)]
    /\ answer' = NoCall
    /\ UNCHANGED <<store, now, blacklists, hc, outcome, trace>>

\* (mutant) the user-agent blacklist not consulted
BlacklistedIpOnly(o) == o.ip \in blacklistIP

\* BLACKLIST_CHECK: a blacklisted ip or user agent ends the view, silently.
Blacklisted(o) == o.ip \in blacklistIP \/ o.user_agent \in blacklistUA

BlacklistCheck(p) ==
    /\ pc[p] = "blacklist_check"
    /\ IF Blacklisted(obj[p])
         THEN Finish(p, "rejected")
         ELSE /\ pc' = [pc EXCEPT ![p] = "dedup_check"]
              /\ UNCHANGED <<obj, hc, outcome>>
    /\ answer' = NoCall
    /\ UNCHANGED <<store, now, blacklists, trace>>

\* DEDUP_CHECK: an active Hit of the same visitor (session) for the same
\* aggregate ends the view, silently; otherwise the view is ACCEPTED: the
\* aggregate is fetched and the new Hit is saved.
SameVisitor(o, h) == hit[h].session = o.session /\ hit[h].hitcount = o.hitcount

DedupCheck(p) ==
    /\ pc[p] = "dedup_check"
    /\ LET matching == {h \in AllHits : SameVisitor(obj[p], h)}
       IN IF FilterActive(matching) # {}
            THEN Finish(p, "rejected")
            ELSE /\ pc' = [pc EXCEPT ![p] = "hit_save"]
                 /\ hc' = [hc EXCEPT ![p] = LoadHitCount(obj[p].hitcount)]
                 /\ UNCHANGED <<obj, outcome>>
    /\ answer' = NoCall
    /\ UNCHANGED <<store, now, blacklists, trace>>

\* ---------------------------------------------------------- specifications
OneVisitor == {[ip |-> "5.6.7.8", session |-> "s2", user_agent |-> "browser"]}

Step(p) ==
    \/ \E a \in Aggs, v \in OneVisitor : NewHit(p, a, v)
    \/ \E h \in HitIds : SaveAgain(p, h)
    \/ HitSave(p)
    \/ SetCreated(p)
    \/ HitInsert(p)
    \/ \E h \in HitIds : DeleteHit(p, h)
    \/ SubtractHitCount(p)
    \/ DeleteRow(p)

\* Concurrent requests over a store that can fail.
Next ==
    \/ \E p \in Procs : Step(p)
    \/ \E p \in Procs : SubtractHitCountRefused(p)
    \/ \E p \in Procs : StorageFailure(p)
    \/ Tick(ShortTime)

Spec == Init /\ [][Next]_vars

\* Requests served one at a time over a store that does not fail: event
\* creations and deletions of stored events only.
SeqNext ==
    \/ \E p \in Procs, a \in Aggs, v \in OneVisitor : Serial(p) /\ NewHit(p, a, v)
    \/ \E p \in Procs : Serial(p) /\ HitSave(p)
    \/ \E p \in Procs : Serial(p) /\ SetCreated(p)
    \/ \E p \in Procs : Serial(p) /\ HitInsert(p)
    \/ \E p \in Procs, h \in HitIds : Serial(p) /\ DeleteHit(p, h)
    \/ \E p \in Procs : Serial(p) /\ SubtractHitCount(p)
    \/ \E p \in Procs : Serial(p) /\ DeleteRow(p)
    \/ Tick(ShortTime)

SpecSeq == Init /\ [][SeqNext]_vars

\* Concurrent saves of new Hits over a store that does not fail.
CreateNext ==
    \/ \E p \in Procs, a \in Aggs, v \in OneVisitor : NewHit(p, a, v)
    \/ \E p \in Procs : HitSave(p)
    \/ \E p \in Procs : SetCreated(p)
    \/ \E p \in Procs : HitInsert(p)
    \/ Tick(ShortTime)

SpecCreate == Init /\ [][CreateNext]_vars

\* One worker saving new Hits and saving stored Hits again, over a store
\* that can fail.
Solo == {p \in Procs : \A q \in Procs : p <= q}

ResaveNext ==
    \/ \E p \in Solo, a \in Aggs, v \in OneVisitor : NewHit(p, a, v)
    \/ \E p \in Solo, h \in HitIds : SaveAgain(p, h)
    \/ \E p \in Solo : HitSave(p)
    \/ \E p \in Solo : SetCreated(p)
    \/ \E p \in Solo : HitInsert(p)
    \/ \E p \in Solo : StorageFailure(p)
    \/ Tick(ShortTime)

SpecResave == Init /\ [][ResaveNext]_vars

\* Views served one at a time by one worker while the admin edits the
\* blacklists.
AdminIPs == {"1.2.3.4"}
AdminUAs == {"bot"}

ViewNext ==
    \/ \E p \in Solo, a \in Aggs, v \in Visitors : View(p, a, v)
    \/ \E p \in Solo : BlacklistCheck(p)
    \/ \E p \in Solo : DedupCheck(p)
    \/ \E p \in Solo : HitSave(p)
    \/ \E p \in Solo : SetCreated(p)
    \/ \E p \in Solo : HitInsert(p)
    \/ \E ip \in AdminIPs : AddBlacklistIP(ip)
    \/ \E ip \in AdminIPs : RemoveBlacklistIP(ip)
    \/ \E ua \in AdminUAs : AddBlacklistUA(ua)
    \/ \E ua \in AdminUAs : RemoveBlacklistUA(ua)
    \/ Tick(ShortTime)

SpecView == Init /\ [][ViewNext]_vars

\* Views served one at a time by one worker, days passing between them until
\* the clock is past the active window.
DedupNext ==
    \/ \E p \in Solo, a \in Aggs, v \in Visitors : View(p, a, v)
    \/ \E p \in Solo : BlacklistCheck(p)
    \/ \E p \in Solo : DedupCheck(p)
    \/ \E p \in Solo : HitSave(p)
    \/ \E p \in Solo : SetCreated(p)
    \/ \E p \in Solo : HitInsert(p)
    \/ AllIdle /\ Tick(MaxTime)

SpecDedup == Init /\ [][DedupNext]_vars

\* Creations and deletions by one worker, callers asking for windowed counts
\* between them, and the clock read on the first day and on the last two.
QueryTimes == {1, MaxTime - 1, MaxTime}

QueryNext ==
    \/ \E p \in Solo, a \in Aggs, v \in OneVisitor : NewHit(p, a, v)
    \/ \E p \in Solo : HitSave(p)
    \/ \E p \in Solo : SetCreated(p)
    \/ \E p \in Solo : HitInsert(p)
    \/ \E p \in Solo, h \in HitIds : DeleteHit(p, h)
    \/ \E p \in Solo : SubtractHitCount(p)
    \/ \E p \in Solo : DeleteRow(p)
    \/ \E a \in Aggs, kw \in KwargsSet : AllIdle /\ CallHitsInLast(a, kw)
    \/ Elapse(QueryTimes)

SpecQuery == Init /\ [][QueryNext]_vars

\* One worker saving new Hits, some built without an aggregate or without
\* one of the visitor's identifiers, over a store that does not fail.
InsertNext ==
    \/ \E p \in Solo, a \in Aggs, v \in OneVisitor \cup Incomplete : NewHit(p, a, v)
    \/ \E p \in Solo, v \in OneVisitor : NewHitNoAggregate(p, v)
    \/ \E p \in Solo : HitSave(p)
    \/ \E p \in Solo : HitSaveNoHitCount(p)
    \/ \E p \in Solo : SetCreated(p)
    \/ \E p \in Solo : HitInsert(p)
    \/ Tick(ShortTime)

SpecInsert == Init /\ [][InsertNext]_vars

\* Concurrent callers asking for the aggregates of objects not tracked yet.
GetOrCreateNext ==
    \/ \E p \in Procs, o \in Objects : GetOrCreate(p, o)
    \/ \E p \in Procs : GocGet(p)
    \/ \E p \in Procs : GocInsert(p)

SpecGetOrCreate == InitUntracked /\ [][GetOrCreateNext]_vars

\* One worker saving new Hits, callers asking for the active Hits between the
\* saves, and a wall clock that is read on the first day, when that day's
\* Hits are exactly the default grace period old and a day later, and that
\* can be set back.
ActiveTimes == {1, 1 + KeepHitActiveDays, 2 + KeepHitActiveDays}

ActiveNext ==
    \/ \E p \in Solo, a \in Aggs, v \in Visitors : NewHit(p, a, v)
    \/ \E p \in Solo : HitSave(p)
    \/ \E p \in Solo : SetCreated(p)
    \/ \E p \in Solo : HitInsert(p)
    \/ \E st \in Settings, c \in CriteriaSet : AllIdle /\ CallFilterActive(st, c)
    \/ AllIdle /\ Elapse(ActiveTimes)
    \/ AllIdle /\ SetBack(ActiveTimes)

SpecActive == Init /\ [][ActiveNext]_vars

\* Concurrent requests that save new Hits, delete stored ones and call
\* HitCount.save() on instances they hold, over a store that does not fail.
TouchNext ==
    \/ \E p \in Procs, a \in Aggs, v \in OneVisitor : NewHit(p, a, v)
    \/ \E p \in Procs : HitSave(p)
    \/ \E p \in Procs : SetCreated(p)
    \/ \E p \in Procs : HitInsert(p)
    \/ \E p \in Procs : HitInsertAndKeep(p)
    \/ \E p \in Procs, h \in HitIds : DeleteHit(p, h)
    \/ \E p \in Procs : SubtractHitCount(p)
    \/ \E p \in Procs : SubtractHitCountRefused(p)
    \/ \E p \in Procs : DeleteRow(p)
    \/ \E p \in Procs : DeleteRowAndKeep(p)
    \/ \E p \in Procs, a \in Aggs : LoadAggregate(p, a)
    \/ \E p \in Procs : SaveHitCount(p)
    \/ Tick(ShortTime)

SpecTouch == Init /\ [][TouchNext]_vars

\* Concurrent requests that save new Hits and delete stored ones, over a
\* store that does not fail; a delete is begun while no other request is in
\* progress, and saves of new Hits overlap it and one another.
FrameNext ==
    \/ \E p \in Procs, a \in Aggs, v \in OneVisitor : NewHit(p, a, v)
    \/ \E p \in Procs : HitSave(p)
    \/ \E p \in Procs : SetCreated(p)
    \/ \E p \in Procs : HitInsert(p)
    \/ \E p \in Procs, h \in HitIds : Serial(p) /\ DeleteHit(p, h)
    \/ \E p \in Procs : SubtractHitCount(p)
    \/ \E p \in Procs : DeleteRow(p)
    \/ Tick(ShortTime)

SpecFrame == Init /\ [][FrameNext]_vars

\* ------------------------------------------------------------------ claims
\* Stored Hit events that reference aggregate a.
EventsOf(a) == {h \in HitIds : hit[h] # NoRow /\ hit[h].hitcount = a}
Count(a) == Cardinality(EventsOf(a))

\* New Hits of aggregate a whose save has bumped the aggregate and has not
\* yet inserted the row.
Pending(a) == {p \in Unstored : pc[p] \in {"set_created", "hit_insert"}
                                /\ obj[p].hitcount = a}

\* C1 (SpecSeq): after any sequence of completed creations and deletions of
\* stored events, served one at a time, every aggregate's stored hits equals
\* the number of stored Hit events that reference it.
C1_HitsEqualsStoredEvents ==
    AllIdle => \A a \in Aggs : hitcount[a].hits = Count(a)

\* C1 witness: nothing in progress, an event was created and deleted and
\* another one is still stored.
C1_Witness ==
    /\ AllIdle
    /\ \E h \in HitIds : trace.decs[h] = 1 /\ hit[h] = NoRow
    /\ \E a \in Aggs : Count(a) = 1

\* C2 (SpecCreate): however the saves of new Hits on one aggregate interleave,
\* every UPDATE hits = hits + 1 issued is in the stored total: hits is the
\* number of events stored plus the saves that have bumped the aggregate and
\* not yet inserted, so N completed saves leave hits = N.
C2_NoLostIncrement ==
    \A a \in Aggs : hitcount[a].hits = Count(a) + Cardinality(Pending(a))

\* C2 witness: every request is saving a new Hit of one aggregate, all have
\* bumped it and none has inserted yet, then all done.
C2_Witness ==
    \E a \in Aggs :
        /\ \A p \in Procs : p \in Pending(a) /\ pc[p] = "hit_insert"
        /\ hitcount[a].hits = NumProcs

\* C3 (Spec), the claim as stated: with no storage failure, and no total
\* driven below zero (which a store that enforces the column's sign would
\* refuse), the aggregate is decremented at most once for each time the
\* event was stored.
C3_DecrementOncePerEvent ==
    (trace.failures = 0 /\ \A a \in Aggs : hitcount[a].hits >= 0)
    => \A h \in HitIds : trace.decs[h] <= trace.ins[h]

\* C4 (Spec), the claim as stated: no aggregate carries an increment whose
\* event is neither stored nor about to be stored by a save in progress.
C4_NoIncrementWithoutEvent ==
    \A a \in Aggs : hitcount[a].hits <= Count(a) + Cardinality(Pending(a))

\* C5 (Spec), the claim as stated: when a delete fails after the handler has
\* run and the event is still stored, the decrement is not left in the store.
C5_FailedDeleteKeepsTotal ==
    [][\A p \in Procs :
          (pc[p] = "delete_row" /\ pc'[p] = "idle" /\ outcome'[p] = "error"
           /\ hit'[obj[p].pk] # NoRow)
          => hitcount'[obj[p].hitcount].hits = hitcount[obj[p].hitcount].hits + 1]_vars

\* C6 (SpecResave): the save that finds `created` unset adds 1 to the owning
\* aggregate and then sets `created`; a save that finds it set changes no
\* aggregate; and the `created` of a stored event never changes.
C6_IncrementOnce ==
    [][/\ \A p \in Procs :
            /\ (pc[p] = "hit_save" /\ pc'[p] = "set_created")
               => /\ obj[p].created = NoTime
                  /\ hitcount'[obj[p].hitcount].hits
                       = hitcount[obj[p].hitcount].hits + 1
            /\ (pc[p] = "set_created" /\ pc'[p] = "hit_insert")
               => obj'[p].created = now
            /\ (pc[p] \in {"hit_save", "hit_insert"} /\ pc'[p] # pc[p]
                /\ obj[p].created # NoTime /\ outcome'[p] = outcome[p])
               => /\ \A a \in Aggs : hitcount'[a].hits = hitcount[a].hits
                  /\ obj[p].pk # NoPk => hit'[obj[p].pk].created = obj[p].created
       /\ \A h \in HitIds :
            (hit[h] # NoRow /\ hit'[h] # NoRow) => hit'[h].created = hit[h].created]_vars

\* C6 witness: a later save of a stored Hit is past line 121 and its
\* aggregate still counts the event once.
C6_Witness ==
    \E p \in Procs :
        /\ pc[p] = "hit_insert"
        /\ obj[p].pk # NoPk
        /\ hit[obj[p].pk] # NoRow
        /\ now > obj[p].created
        /\ hitcount[obj[p].hitcount].hits = 1

\* The step request p takes out of stage `at`.
Leaves(p, at) == pc[p] = at /\ pc'[p] # at

\* C7 (SpecView): a view whose ip or user agent is blacklisted when the
\* blacklist check runs ends rejected, with no error, and changes neither
\* the Hit rows nor any aggregate, whatever the admin did before.
C7_BlacklistedViewRejected ==
    [][\A p \in Procs :
          (Leaves(p, "blacklist_check")
           /\ (obj[p].ip \in blacklistIP \/ obj[p].user_agent \in blacklistUA))
          => /\ pc'[p] = "idle"
             /\ outcome'[p] = "rejected"
             /\ hit' = hit /\ hitcount' = hitcount /\ nextPk' = nextPk]_vars

\* C7 witness: a view was rejected while no Hit was ever stored, so by the
\* blacklist, and only its user agent is blacklisted.
C7_Witness ==
    \E p \in Procs :
        /\ pc[p] = "idle" /\ outcome[p] = "rejected"
        /\ nextPk = 1
        /\ blacklistIP = {} /\ blacklistUA = {"bot"}

\* Stored Hits of the visitor (session) and aggregate of the in-memory Hit o.
PriorViews(o) ==
    {h \in HitIds : hit[h] # NoRow /\ hit[h].session = o.session
                    /\ hit[h].hitcount = o.hitcount}

\* C8 (SpecDedup): with the default window of 7 days, a view that reaches the
\* dedup check at most 7 days after a recorded view of the same visitor for
\* the same object is rejected and changes nothing; one that reaches it 8
\* days or more after the latest such view is accepted, and its save adds 1
\* to hits.
C8_DedupWindow ==
    [][\A p \in Procs :
          /\ (Leaves(p, "dedup_check")
              /\ \E h \in PriorViews(obj[p]) : now - hit[h].created <= 7)
             => /\ pc'[p] = "idle" /\ outcome'[p] = "rejected"
                /\ hit' = hit /\ hitcount' = hitcount
          /\ (Leaves(p, "dedup_check")
              /\ \A h \in PriorViews(obj[p]) : now - hit[h].created >= 8)
             => /\ pc'[p] = "hit_save" /\ obj'[p].created = NoTime
          /\ Leaves(p, "hit_save")
             => hitcount'[obj[p].hitcount].hits
                  = hitcount[obj[p].hitcount].hits + 1]_vars

\* C8 witness: the visitor's one recorded view is exactly 8 days old, an
\* earlier repeat was rejected, and the view now being served was accepted.
C8_Witness ==
    \E p \in Procs :
        /\ pc[p] = "hit_save" /\ outcome[p] = "rejected"
        /\ Cardinality(AllHits) = 1
        /\ \E h \in PriorViews(obj[p]) : now - hit[h].created = 8

\* C9 (SpecQuery): for a positive window, hits_in_last returns the number of
\* stored Hit events of that aggregate that are at most `window` old.
C9_HitsInLastCounts ==
    (answer.status # "none" /\ DOMAIN answer.kwargs # {}
     /\ DOMAIN answer.kwargs \subseteq TimedeltaArgs
     /\ TimeDelta(answer.kwargs) > 0)
    => /\ answer.status = "ok"
       /\ answer.value =
            Cardinality({h \in HitIds : /\ hit[h] # NoRow
                                        /\ hit[h].hitcount = answer.agg
                                        /\ now - hit[h].created
                                             <= TimeDelta(answer.kwargs)})

\* C9 witness: events one day and ten days old, hits_in_last(days=7) is 1.
C9_Witness ==
    /\ answer.status = "ok"
    /\ answer.kwargs = [k \in {"days"} |-> 7]
    /\ answer.value = 1
    /\ \E h1, h2 \in EventsOf(answer.agg) :
          now - hit[h1].created = 1 /\ now - hit[h2].created = 10

\* C10 (SpecQuery), the claim as stated: hits_in_last returns no count when
\* no component is given, a component is not understood, or the total
\* duration is zero or negative.
C10_NonPositiveWindowFails ==
    answer.status = "ok" =>
        /\ DOMAIN answer.kwargs # {}
        /\ DOMAIN answer.kwargs \subseteq TimedeltaArgs
        /\ TimeDelta(answer.kwargs) > 0

\* C10 as amended: hits_in_last fails, and returns no count, exactly when no
\* component is given (AssertionError) or a component is not a timedelta
\* argument (TypeError); a zero or negative total duration is no error and
\* returns the number of the aggregate's events stamped at or after
\* now - window.
C10_FailsOnMissingOrUnknownArgs ==
    answer.status # "none" =>
        /\ answer.status = "AssertionError" <=> DOMAIN answer.kwargs = {}
        /\ answer.status = "TypeError"
             <=> (DOMAIN answer.kwargs # {}
                  /\ ~(DOMAIN answer.kwargs \subseteq TimedeltaArgs))
        /\ (answer.status = "ok" /\ TimeDelta(answer.kwargs) <= 0)
             => answer.value =
                  Cardinality({h \in EventsOf(answer.agg) :
                      hit[h].created - now >= -TimeDelta(answer.kwargs)})

\* C10 witness: a total duration of zero (days=-7, weeks=1) is answered with
\* the one event stamped now.
C10_Witness ==
    /\ answer.status = "ok"
    /\ answer.kwargs = [k \in {"days", "weeks"} |-> IF k = "days" THEN -7 ELSE 1]
    /\ answer.value = 1
    /\ Cardinality(EventsOf(answer.agg)) = 2

\* An in-memory Hit that lacks a required field.
Missing(o) ==
    o.hitcount = NoAgg \/ o.ip = Blank \/ o.session = Blank \/ o.user_agent = Blank

\* C11 (SpecInsert), the claim as stated: the save of a Hit that lacks its
\* aggregate or one of ip, session, user agent ends at its first step with an
\* error and writes nothing: no Hit row, no aggregate's hits or modified.
C11_MissingFieldRejected ==
    [][\A p \in Procs :
          (Leaves(p, "hit_save") /\ Missing(obj[p]))
          => /\ pc'[p] = "idle"
             /\ outcome'[p] # "ok"
             /\ UNCHANGED store]_vars

\* C12 (Spec), the claim as stated: with no storage failure, whatever the
\* interleaving of saves of new Hits and deletes of Hits loaded from the
\* store, no aggregate's stored hits is below zero.
C12_HitsNonNegative ==
    trace.failures = 0 => \A a \in Aggs : hitcount[a].hits >= 0

ActiveWindow(settings) ==
    IF "HITCOUNT_KEEP_HIT_ACTIVE" \in DOMAIN settings
      THEN settings["HITCOUNT_KEEP_HIT_ACTIVE"]["days"]
      ELSE 7

\* The stored Hits that meet the criteria of a filter_active call.
Meets(criteria) ==
    {h \in HitIds : hit[h] # NoRow /\
                     /\ "session" \in DOMAIN criteria
                          => hit[h].session = criteria["session"]
                     /\ "hitcount" \in DOMAIN criteria
                          => hit[h].hitcount = criteria["hitcount"]}

\* C14 (SpecActive), the claim as stated: filter_active returns exactly the
\* stored Hits that meet the criteria and whose created lies between
\* now - activeWindow and now, both included.
C14_ActiveInClosedRange ==
    answer.status = "active" =>
        answer.value =
            {h \in Meets(answer.criteria) :
                /\ hit[h].created >= now - ActiveWindow(answer.settings)
                /\ hit[h].created <= now}

\* C14 as amended: filter_active returns exactly the stored Hits that meet
\* the criteria and whose created is not earlier than now - activeWindow;
\* it sets no upper limit, so a Hit stamped later than now is returned.
C14_ActiveSinceWindowStart ==
    answer.status = "active" =>
        /\ answer.value =
              {h \in Meets(answer.criteria) :
                  now - hit[h].created <= ActiveWindow(answer.settings)}
        /\ \A h \in Meets(answer.criteria) :
              hit[h].created > now => h \in answer.value

\* C14 witness: under a configured grace period of one day, of two Hits that
\* meet the criteria the one older than a day is left out and the one
\* stamped later than now is returned.
C14_Witness ==
    /\ answer.status = "active"
    /\ answer.settings # NoSettings
    /\ \E h1, h2 \in Meets(answer.criteria) :
          /\ now - hit[h1].created > 1 /\ h1 \notin answer.value
          /\ hit[h2].created > now /\ h2 \in answer.value

\* C15 (SpecSeq), the claim as stated: whenever no operation is in progress,
\* an aggregate's modified is not earlier than the created of any of its
\* stored events.
C15_ModifiedNotBeforeCreated ==
    AllIdle => \A a \in Aggs : \A h \in EventsOf(a) :
                  hitcount[a].modified >= hit[h].created

\* C15 as amended: with operations served one at a time, the save of a new
\* Hit and the delete of a stored one set the aggregate's modified to the
\* clock as HitCount.save reads it, modified never decreases, and whenever no
\* operation is in progress modified is not earlier than the created of any
\* stored event but the one stored last for the aggregate, whose created is
\* read from the clock after modified was.
C15_ModifiedStamped ==
    [][/\ \A p \in Procs :
            ((pc[p] = "hit_save" /\ pc'[p] = "set_created")
             \/ (pc[p] = "pre_delete" /\ pc'[p] = "delete_row"))
            => hitcount'[obj[p].hitcount].modified = now
       /\ \A a \in Aggs : hitcount'[a].modified >= hitcount[a].modified
       /\ (\A p \in Procs : pc'[p] = "idle")
            => \A a \in Aggs, h \in HitIds :
                  (hit'[h] # NoRow /\ hit'[h].hitcount = a
                   /\ hit'[h].created > hitcount'[a].modified)
                  => \A h2 \in HitIds :
                        (hit'[h2] # NoRow /\ hit'[h2].hitcount = a) => h2 <= h]_vars

\* C15 witness: nothing in progress, an aggregate has two stored events, and
\* the one stored last was stamped after the aggregate was.
C15_Witness ==
    /\ AllIdle
    /\ \E a \in Aggs :
          /\ Count(a) = 2
          /\ \E h \in EventsOf(a) : hit[h].created > hitcount[a].modified

\* C16 (SpecTouch), the claim as stated: HitCount.save() by a caller that
\* assigned nothing to hits leaves the stored hits of every aggregate as
\* they are.
C16_SaveKeepsHits ==
    [][\A p \in Procs :
          Leaves(p, "hitcount_save")
          => \A a \in Aggs : hitcount'[a].hits = hitcount[a].hits]_vars

\* The Hit a request is saving or deleting, and that Hit's row.
Subject(p) == IF pc[p] = "idle" THEN obj'[p] ELSE obj[p]
SubjectRow(p) == IF Subject(p).pk = NoPk THEN nextPk ELSE Subject(p).pk

\* C17 (SpecFrame): a step of the save or the delete of a Hit of aggregate A
\* changes, of the store, at most A's hits and modified and that Hit's row:
\* every other aggregate, the (content_type, object_id) of every aggregate,
\* every other Hit row and the two blacklists stay as they are.
C17_OnlyOwnAggregateAndEvent ==
    [][\A p \in Procs :
          pc'[p] # pc[p]
          => /\ \A a \in Aggs \ {Subject(p).hitcount} : hitcount'[a] = hitcount[a]
             /\ \A a \in Aggs :
                   /\ hitcount'[a].content_type = hitcount[a].content_type
                   /\ hitcount'[a].object_id = hitcount[a].object_id
             /\ \A h \in HitIds \ {SubjectRow(p)} : hit'[h] = hit[h]
             /\ blacklistIP' = blacklistIP /\ blacklistUA' = blacklistUA]_vars

\* C17 witness: an event of one aggregate was stored and deleted again while
\* the other aggregate keeps its one event and its total of 1.
C17_Witness ==
    /\ AllIdle
    /\ \E h \in HitIds : trace.ins[h] = 1 /\ trace.decs[h] = 1 /\ hit[h] = NoRow
    /\ \E a, b \in Aggs :
          /\ a # b
          /\ hitcount[a].hits = 0 /\ Count(a) = 0
          /\ hitcount[b].hits = 1 /\ Count(b) = 1
          /\ hitcount[b].modified < hitcount[a].modified

\* hits_in_last(days=w) of aggregate a, for a positive number of days.
InLastDays(a, w) == HitsInLast(a, [k \in {"days"} |-> w]).value

\* C18 (Spec), the claim as stated: whenever no operation is in progress (and
\* here no statement has failed, no total is below zero and no event was
\* stored a second time), for windows of one day and of a week,
\* hits_in_last(1 day) <= hits_in_last(1 week) <= hits for every aggregate.
C18_WindowedCountWithinTotal ==
    (/\ AllIdle
     /\ trace.failures = 0
     /\ \A a \in Aggs : hitcount[a].hits >= 0
     /\ \A h \in HitIds : trace.ins[h] <= 1)
    => \A a \in Aggs :
          /\ InLastDays(a, 1) <= InLastDays(a, 7)
          /\ InLastDays(a, 7) <= hitcount[a].hits

====
